---- MODULE Spec2Model ----
(***************************************************************************)
(* Model of the job lifecycle of the rocket fuel optimizer backend:        *)
(*   - JobQueue (src/backend/worker.py): the in-memory job table, its lock *)
(*     and its ThreadPoolExecutor;                                         *)
(*   - the FastAPI handlers and the background task (src/backend/api.py);  *)
(*   - the two persisted tables (src/backend/database.py).                 *)
(*                                                                         *)
(* Threads: the handlers are `async def` without an await, so they run one *)
(* at a time on the event loop (variable loop); every task runs on a pool  *)
(* thread and interleaves with the handlers at each access to shared state *)
(* (the job table under its lock, the model cache, the database).  The     *)
(* JobQueue methods are also callable from any other thread; such a caller *)
(* of get_job_status is the action GetJobStatusCall.                       *)
(*                                                                         *)
(* Numbers: progress and alpha are kept in tenths (0.3 is 3, 1.0 is 10).   *)
(* An Optional value is a sequence: <<>> is None, <<v>> is the value v.    *)
(***************************************************************************)
EXTENDS Integers, Sequences, FiniteSets, TLC

\* ------------------------------------------------------------------ bounds
\* number of faults (exceptions raised by a step of a task) in one run
MaxFaults == 2

\* hours the clock runs for
MaxTime == 2

\* ThreadPoolExecutor(max_workers=2)
max_workers == 2

\* default of ExperimentParams.max_temp
DefaultMaxTemp == 4000

\* the identifiers uuid4 hands out: two jobs, so that submissions, tasks and
\* polls of different jobs interleave
JobIds == {1, 2}

None == <<>>
Some(v) == <<v>>

VARIABLES
    experiments,   \* table experiments: job id -> Experiment row
    results,       \* table results: job id -> Result row
    jobs,          \* JobQueue.jobs: job id -> record
    futures,       \* the Future objects executor.submit has created
    workq,         \* the executor's FIFO work queue (job ids of waiting tasks)
    pool_size,     \* the executor's max_workers
    pc,            \* position of each task in _run_experiment_task
    local,         \* local variables of each task
    model_cache,   \* api._model_cache
    trainings,     \* number of train_model calls that have returned
    loop,          \* the handler the event loop is executing
    resp,          \* the last HTTP response sent
    seen,          \* first terminal status get_job_status has returned, per id
    fault,         \* text of the fault each task's try block has raised, if any
    faults,        \* number of faults raised so far
    now,           \* the clock (datetime.utcnow)
    call,          \* the arguments of a direct call of optimize_fuel_mixture
    ret            \* what that call has returned or raised, once it has

db_vars    == <<experiments, results>>
queue_vars == <<jobs, futures, workq, pool_size>>
task_vars  == <<pc, local, model_cache, trainings, fault, faults>>
http_vars  == <<loop, resp>>
vars == <<experiments, results, jobs, futures, workq, pool_size, pc, local,
          model_cache, trainings, loop, resp, seen, fault, faults, now, call, ret>>

\* ------------------------------------------------------------ dict helpers
\* d[k] = v on a Python dict (insert or overwrite)
Put(d, k, v) == [x \in DOMAIN d \cup {k} |-> IF x = k THEN v ELSE d[x]]

EmptyDict == [x \in {} |-> 0]

\* a message with an interpolated detail, e.g. f'Job failed: {str(e)}'
Msg(text, detail) == <<text, detail>>

Terminal == {"completed", "failed"}

\* ------------------------------------------------------- request validation
\* values a client may send for each field of ExperimentParams
OFValues       == {2, 10}
PressureValues == {5, 11}
TempValues     == {2499, 3000}
IspValues      == {300, 451}
AlphaValues    == {None, Some(5), Some(11)}

Requests ==
    [O_F_ratio : OFValues, pressure : PressureValues, temp : TempValues,
     isp : IspValues, alpha : AlphaValues, max_temp : {Some(DefaultMaxTemp)}]

NoParams == [O_F_ratio |-> 0]

\* mutant: the upper bound of O_F_ratio is not checked
ValidBadUpperOF(p) ==
    /\ p.O_F_ratio >= 2
    /\ p.pressure >= 1 /\ p.pressure <= 10
    /\ p.temp >= 2500 /\ p.temp <= 5000
    /\ p.isp >= 200 /\ p.isp <= 450
    /\ p.alpha # None => (p.alpha[1] >= 0 /\ p.alpha[1] <= 10)

\* pydantic's check of the Field(ge=, le=) bounds of ExperimentParams
ValidExperimentParams(p) ==
    /\ p.O_F_ratio >= 2 /\ p.O_F_ratio <= 6
    /\ p.pressure >= 1 /\ p.pressure <= 10
    /\ p.temp >= 2500 /\ p.temp <= 5000
    /\ p.isp >= 200 /\ p.isp <= 450
    /\ p.alpha # None => (p.alpha[1] >= 0 /\ p.alpha[1] <= 10)

\* --------------------------------------------------------------- JobQueue
\* the record enqueue_job registers in its first locked section
NewJobRecord(t) ==
    [status |-> "queued", progress |-> 0, message |-> Msg("Job queued", ""),
     created_at |-> t, future |-> 0]

\* mutant: the test is "not pending" (running() or done()) instead of done()
FutureDoneOrRunning(fs, f) == f \in DOMAIN fs /\ fs[f].state # "pending"

\* Future.done()
FutureDone(fs, f) == f \in DOMAIN fs /\ fs[f].state \in {"finished", "raised"}

\* mutant: an update of an unknown identifier creates its record
UpdateJobStatusCreates(tbl, j, status, progress, message) ==
    IF j \in DOMAIN tbl
    THEN [tbl EXCEPT ![j].status = status, ![j].progress = progress,
                     ![j].message = message]
    ELSE Put(tbl, j, [status |-> status, progress |-> progress,
                      message |-> message, created_at |-> 0, future |-> 0])

\* mutant: an update is applied only once the record has its handle
UpdateJobStatusNeedsHandle(tbl, j, status, progress, message) ==
    IF j \in DOMAIN tbl /\ tbl[j].future # 0
    THEN [tbl EXCEPT ![j].status = status, ![j].progress = progress,
                     ![j].message = message]
    ELSE tbl

\* JobQueue.update_job_status: the table after the call
UpdateJobStatus(tbl, j, status, progress, message) ==
    IF j \in DOMAIN tbl
    THEN [tbl EXCEPT ![j].status = status, ![j].progress = progress,
                     ![j].message = message]
    ELSE tbl

\* mutant: a done Future is resolved whatever the stored status is
GetJobStatusTableNoGuard(tbl, fs, j) ==
    IF j \notin DOMAIN tbl THEN tbl
    ELSE IF tbl[j].future # 0 /\ FutureDone(fs, tbl[j].future)
    THEN IF fs[tbl[j].future].state = "finished"
         THEN [tbl EXCEPT ![j].status = "completed", ![j].progress = 10,
                          ![j].message = Msg("Job completed", "")]
         ELSE [tbl EXCEPT ![j].status = "failed", ![j].progress = 0,
                          ![j].message =
                              Msg("Job failed", fs[tbl[j].future].exc)]
    ELSE tbl

\* mutant: a raised Future is resolved to failed with the progress left as is
GetJobStatusTableKeepsProgress(tbl, fs, j) ==
    IF j \notin DOMAIN tbl THEN tbl
    ELSE IF tbl[j].future # 0 /\ FutureDone(fs, tbl[j].future)
            /\ tbl[j].status \notin Terminal
    THEN IF fs[tbl[j].future].state = "finished"
         THEN [tbl EXCEPT ![j].status = "completed", ![j].progress = 10,
                          ![j].message = Msg("Job completed", "")]
         ELSE [tbl EXCEPT ![j].status = "failed",
                          ![j].message =
                              Msg("Job failed", fs[tbl[j].future].exc)]
    ELSE tbl

\* JobQueue.get_job_status: the table after the call (the lazy resolution)
GetJobStatusTable(tbl, fs, j) ==
    IF j \notin DOMAIN tbl THEN tbl
    ELSE IF tbl[j].future # 0 /\ FutureDone(fs, tbl[j].future)
            /\ tbl[j].status \notin Terminal
    THEN IF fs[tbl[j].future].state = "finished"
         THEN [tbl EXCEPT ![j].status = "completed", ![j].progress = 10,
                          ![j].message = Msg("Job completed", "")]
         ELSE [tbl EXCEPT ![j].status = "failed", ![j].progress = 0,
                          ![j].message =
                              Msg("Job failed", fs[tbl[j].future].exc)]
    ELSE tbl

\* mutant: a record whose future is still None is answered not_found
GetJobStatusReplyNeedsFuture(tbl, fs, j) ==
    IF j \notin DOMAIN tbl \/ tbl[j].future = 0
    THEN [status |-> "not_found", progress |-> 0,
          message |-> Msg("Job not found", "")]
    ELSE LET job == GetJobStatusTable(tbl, fs, j)[j]
         IN  [status |-> job.status, progress |-> job.progress,
              message |-> job.message]

\* JobQueue.get_job_status: the dict it returns
GetJobStatusReply(tbl, fs, j) ==
    IF j \notin DOMAIN tbl
    THEN [status |-> "not_found", progress |-> 0,
          message |-> Msg("Job not found", "")]
    ELSE LET job == GetJobStatusTable(tbl, fs, j)[j]
         IN  [status |-> job.status, progress |-> job.progress,
              message |-> job.message]

\* the history of terminal answers, after get_job_status(j) has answered
Observe(s, j, status) ==
    IF s[j] = "none" /\ status \in Terminal THEN [s EXCEPT ![j] = status] ELSE s

\* ------------------------------------------------------------------- Init
NoLocal == [trained |-> None, model |-> None, sim |-> None, opt |-> None,
            err |-> ""]
IdleLoop == [pc |-> "idle", job_id |-> 0, params |-> NoParams]
NoResp == [op |-> "none", code |-> 0, job_id |-> 0]

\* the state after import of backend.api, but for the size of the pool
Start ==
    /\ experiments = EmptyDict
    /\ results = EmptyDict
    /\ jobs = EmptyDict
    /\ futures = EmptyDict
    /\ workq = <<>>
    /\ pc = [j \in JobIds |-> "none"]
    /\ local = [j \in JobIds |-> NoLocal]
    /\ model_cache = EmptyDict
    /\ trainings = 0
    /\ loop = IdleLoop
    /\ resp = NoResp
    /\ seen = [j \in JobIds |-> "none"]
    /\ fault = [j \in JobIds |-> ""]
    /\ faults = 0
    /\ now = 0
    /\ ret = None

\* no direct call of optimize_fuel_mixture is under way
NoCall == [fn |-> "none", alpha |-> 0, max_temp |-> None]

\* job_queue = JobQueue(): max_workers takes its default
Init == Start /\ pool_size = max_workers /\ call = NoCall


\* ---------------------------------------------------------- HTTP handlers
\* POST /run with a body pydantic rejects: 422 before run_experiment runs
PostRunInvalid ==
    /\ loop.pc = "idle"
    /\ {p \in Requests : ~ValidExperimentParams(p)} # {}
    /\ resp' = [op |-> "run", code |-> 422, job_id |-> 0]
    /\ UNCHANGED <<db_vars, queue_vars, task_vars, loop, seen, now, call, ret>>

\* str(uuid.uuid4()): an identifier no earlier call has returned.  Identifiers
\* are opaque, so the model hands them out in increasing order.
Uuid4(used) == CHOOSE id \in JobIds \ used : \A k \in JobIds \ used : id <= k

\* mutant: run_experiment goes on to enqueue_job without its Experiment row
RunExperimentNoCommit ==
    /\ loop.pc = "idle"
    /\ JobIds \ DOMAIN experiments # {}
    /\ \E p \in Requests :
        /\ ValidExperimentParams(p)
        /\ LET id == Uuid4(DOMAIN experiments) IN
           /\ experiments' = experiments
           /\ loop' = [pc |-> "enqueue", job_id |-> id, params |-> p]
    /\ UNCHANGED <<results, queue_vars, task_vars, resp, seen, now, call, ret>>

\* run_experiment, up to db.commit(): a fresh uuid4 and the Experiment row
RunExperiment ==
    /\ loop.pc = "idle"
    /\ JobIds \ DOMAIN experiments # {}
    /\ \E p \in Requests :
        /\ ValidExperimentParams(p)
        /\ LET id == Uuid4(DOMAIN experiments) IN
           /\ experiments' = Put(experiments, id,
                  [params |-> p, status |-> "queued", created_at |-> now])
           /\ loop' = [pc |-> "enqueue", job_id |-> id, params |-> p]
    /\ UNCHANGED <<results, queue_vars, task_vars, resp, seen, now, call, ret>>

\* enqueue_job, first locked section: register the record
EnqueueRegister ==
    /\ loop.pc = "enqueue"
    /\ jobs' = Put(jobs, loop.job_id, NewJobRecord(now))
    /\ loop' = [loop EXCEPT !.pc = "submit"]
    /\ UNCHANGED <<db_vars, futures, workq, pool_size, task_vars, resp, seen, now, call, ret>>

\* mutant: submit waits for a free pool thread
EnqueueSubmitBounded ==
    /\ loop.pc = "submit"
    /\ Cardinality({k \in DOMAIN futures : futures[k].state = "running"})
           < pool_size
    /\ futures' = Put(futures, loop.job_id,
                      [state |-> "pending", exc |-> "", args |-> loop.params])
    /\ workq' = Append(workq, loop.job_id)
    /\ pc' = [pc EXCEPT ![loop.job_id] = "pending"]
    /\ loop' = [loop EXCEPT !.pc = "finish"]
    /\ UNCHANGED <<db_vars, jobs, pool_size, local, model_cache, trainings, fault, faults,
                   resp, seen, now, call, ret>>

\* enqueue_job: executor.submit(func, job_id, ...)
EnqueueSubmit ==
    /\ loop.pc = "submit"
    /\ futures' = Put(futures, loop.job_id,
                      [state |-> "pending", exc |-> "", args |-> loop.params])
    /\ workq' = Append(workq, loop.job_id)
    /\ pc' = [pc EXCEPT ![loop.job_id] = "pending"]
    /\ loop' = [loop EXCEPT !.pc = "finish"]
    /\ UNCHANGED <<db_vars, jobs, pool_size, local, model_cache, trainings, fault, faults,
                   resp, seen, now, call, ret>>

\* mutant: the second locked section writes the status but not the handle
StoreStatusOnly(tbl, j) == [tbl EXCEPT ![j].status = "running"]

\* mutant: the second locked section stores the Future and leaves the status
StoreFutureOnly(tbl, j) == [tbl EXCEPT ![j].future = j]

\* the two writes of enqueue_job's second locked section
StoreFuture(tbl, j) == [tbl EXCEPT ![j].future = j, ![j].status = "running"]

\* enqueue_job, second locked section, then run_experiment's JobResponse
EnqueueFinish ==
    /\ loop.pc = "finish"
    /\ IF loop.job_id \in DOMAIN jobs
       THEN /\ jobs' = StoreFuture(jobs, loop.job_id)
            /\ resp' = [op |-> "run", code |-> 200, job_id |-> loop.job_id,
                        status |-> "queued",
                        message |-> Msg("Experiment queued successfully", "")]
       ELSE \* self.jobs[job_id] raises KeyError: the record has been removed
            /\ jobs' = jobs
            /\ resp' = [op |-> "run", code |-> 500, job_id |-> loop.job_id]
    /\ loop' = IdleLoop
    /\ UNCHANGED <<db_vars, futures, workq, pool_size, task_vars, seen, now, call, ret>>

\* mutant: the status reported is the Experiment row's
StatusResponseFromStore(exps, tbl, fs, j) ==
    IF j \notin DOMAIN exps
    THEN [op |-> "status", code |-> 404, job_id |-> j]
    ELSE LET r == GetJobStatusReply(tbl, fs, j)
         IN  [op |-> "status", code |-> 200, job_id |-> j,
              status |-> exps[j].status, progress |-> r.progress,
              message |-> r.message, created_at |-> exps[j].created_at]

\* GET /status/{job_id}: the response of get_job_status
StatusResponse(exps, tbl, fs, j) ==
    IF j \notin DOMAIN exps
    THEN [op |-> "status", code |-> 404, job_id |-> j]
    ELSE LET r == GetJobStatusReply(tbl, fs, j)
         IN  [op |-> "status", code |-> 200, job_id |-> j,
              status |-> r.status, progress |-> r.progress,
              message |-> r.message, created_at |-> exps[j].created_at]

\* GET /status/{job_id}
ApiGetJobStatus(j) ==
    /\ loop.pc = "idle"
    /\ resp' = StatusResponse(experiments, jobs, futures, j)
    /\ IF j \in DOMAIN experiments
       THEN /\ jobs' = GetJobStatusTable(jobs, futures, j)
            /\ seen' = Observe(seen, j, GetJobStatusReply(jobs, futures, j).status)
       ELSE UNCHANGED <<jobs, seen>>
    /\ UNCHANGED <<db_vars, futures, workq, pool_size, task_vars, loop, now, call, ret>>

\* mutant: a failed Result is answered 404, like a missing one
ResultResponseHidesFailed(exps, res, j) ==
    IF j \notin DOMAIN res \/ res[j].status = "failed"
    THEN [op |-> "result", code |-> 404, job_id |-> j]
    ELSE [op |-> "result", code |-> 200, job_id |-> j,
          status |-> res[j].status,
          results |-> IF res[j].status = "completed" THEN res[j].data ELSE None,
          error |-> IF res[j].status = "failed"
                    THEN res[j].error_message ELSE None,
          created_at |-> exps[j].created_at]

\* GET /result/{job_id}: the response of get_job_result
ResultResponse(exps, res, j) ==
    IF j \notin DOMAIN res
    THEN [op |-> "result", code |-> 404, job_id |-> j]
    ELSE [op |-> "result", code |-> 200, job_id |-> j,
          status |-> res[j].status,
          results |-> IF res[j].status = "completed" THEN res[j].data ELSE None,
          error |-> IF res[j].status = "failed"
                    THEN res[j].error_message ELSE None,
          created_at |-> exps[j].created_at]

\* GET /result/{job_id}
ApiGetJobResult(j) ==
    /\ loop.pc = "idle"
    /\ resp' = ResultResponse(experiments, results, j)
    /\ UNCHANGED <<db_vars, queue_vars, task_vars, loop, seen, now, call, ret>>

\* JobQueue.get_job_status called from any thread
GetJobStatusCall(j) ==
    /\ jobs' = GetJobStatusTable(jobs, futures, j)
    /\ seen' = Observe(seen, j, GetJobStatusReply(jobs, futures, j).status)
    /\ UNCHANGED <<db_vars, futures, workq, pool_size, task_vars, http_vars, now, call, ret>>


\* ------------------------------------------------------- the worker pool
\* number of pool threads that are executing a task
Busy == Cardinality({k \in DOMAIN futures : futures[k].state = "running"})

\* mutant: a work item is started whether or not a pool thread is free
TaskStartUnbounded(j) ==
    /\ workq # <<>> /\ Head(workq) = j
    /\ workq' = Tail(workq)
    /\ futures' = [futures EXCEPT ![j].state = "running"]
    /\ pc' = [pc EXCEPT ![j] = "start"]
    /\ UNCHANGED <<db_vars, jobs, pool_size, local, model_cache, trainings,
                   fault, faults, http_vars, seen, now, call, ret>>

\* a free pool thread takes the oldest work item and calls the task
TaskStart(j) ==
    /\ workq # <<>> /\ Head(workq) = j
    /\ Busy < pool_size
    /\ workq' = Tail(workq)
    /\ futures' = [futures EXCEPT ![j].state = "running"]
    /\ pc' = [pc EXCEPT ![j] = "start"]
    /\ UNCHANGED <<db_vars, jobs, pool_size, local, model_cache, trainings,
                   fault, faults, http_vars, seen, now, call, ret>>

\* ------------------------------------------------- _run_experiment_task
\* the task raises inside its try block: control moves to the except clause
Raise(j, text) ==
    /\ local' = [local EXCEPT ![j].err = text]
    /\ fault' = [fault EXCEPT ![j] = text]
    /\ faults < MaxFaults
    /\ faults' = faults + 1
    /\ pc' = [pc EXCEPT ![j] = "h_commit"]

\* update_job_status(job_id, "running", 0.1, "Starting experiment")
TaskBegin(j) ==
    /\ pc[j] = "start"
    /\ jobs' = UpdateJobStatus(jobs, j, "running", 1,
                               Msg("Starting experiment", ""))
    /\ pc' = [pc EXCEPT ![j] = "model_check"]
    /\ UNCHANGED <<db_vars, futures, workq, pool_size, local, model_cache,
                   trainings, fault, faults, http_vars, seen, now, call, ret>>

\* get_or_train_model: if 'default' not in _model_cache
CacheMiss(cache) == "default" \notin DOMAIN cache

\* mutant: get_or_train_model trains without looking at the cache
GetModelCheckAlwaysTrains(j) ==
    /\ pc[j] = "model_check"
    /\ pc' = [pc EXCEPT ![j] = "model_train"]
    /\ UNCHANGED <<db_vars, queue_vars, local, model_cache, trainings, fault, faults,
                   http_vars, seen, now, call, ret>>

GetModelCheck(j) ==
    /\ pc[j] = "model_check"
    /\ pc' = [pc EXCEPT ![j] = IF CacheMiss(model_cache)
                                THEN "model_train" ELSE "model_return"]
    /\ UNCHANGED <<db_vars, queue_vars, local, model_cache, trainings, fault, faults,
                   http_vars, seen, now, call, ret>>

\* train_model(generate_data(seed=42, size=500)): the seeds are fixed, so every
\* training yields the same model and metrics
TrainedModel == [model |-> <<"model">>, metrics |-> <<"metrics">>]

\* get_or_train_model: generate_data and train_model
GetModelTrain(j) ==
    /\ pc[j] = "model_train"
    /\ \/ /\ local' = [local EXCEPT ![j].trained = TrainedModel]
          /\ trainings' = trainings + 1
          /\ pc' = [pc EXCEPT ![j] = "model_store"]
          /\ UNCHANGED <<fault, faults>>
       \/ /\ Raise(j, "training error")
          /\ UNCHANGED trainings
    /\ UNCHANGED <<db_vars, queue_vars, model_cache, http_vars, seen, now, call, ret>>

\* get_or_train_model: _model_cache['default'] = {'model':, 'metrics':}
GetModelStore(j) ==
    /\ pc[j] = "model_store"
    /\ model_cache' = Put(model_cache, "default",
                          local[j].trained)
    /\ pc' = [pc EXCEPT ![j] = "model_return"]
    /\ UNCHANGED <<db_vars, queue_vars, local, trainings, fault, faults, http_vars,
                   seen, now, call, ret>>

\* get_or_train_model: return _model_cache['default']['model']
GetModelReturn(j) ==
    /\ pc[j] = "model_return"
    /\ local' = [local EXCEPT ![j].model = model_cache["default"].model]
    /\ pc' = [pc EXCEPT ![j] = "model_loaded"]
    /\ UNCHANGED <<db_vars, queue_vars, model_cache, trainings, fault, faults,
                   http_vars, seen, now, call, ret>>

\* mutant: the model-loaded checkpoint reports 0.7
TaskModelLoadedSeven(j) ==
    /\ pc[j] = "model_loaded"
    /\ jobs' = UpdateJobStatus(jobs, j, "running", 7, Msg("Model loaded", ""))
    /\ pc' = [pc EXCEPT ![j] = "simulate"]
    /\ UNCHANGED <<db_vars, futures, workq, pool_size, local, model_cache,
                   trainings, fault, faults, http_vars, seen, now, call, ret>>

\* update_job_status(job_id, "running", 0.3, "Model loaded")
TaskModelLoaded(j) ==
    /\ pc[j] = "model_loaded"
    /\ jobs' = UpdateJobStatus(jobs, j, "running", 3, Msg("Model loaded", ""))
    /\ pc' = [pc EXCEPT ![j] = "simulate"]
    /\ UNCHANGED <<db_vars, futures, workq, pool_size, local, model_cache,
                   trainings, fault, faults, http_vars, seen, now, call, ret>>

\* the sim_params dict the task builds from its params
SimParams(p) ==
    [O_F_ratio |-> p.O_F_ratio, pressure |-> p.pressure, temp |-> p.temp,
     isp |-> p.isp]

\* simulate(sim_params, model), then update_job_status(.., 0.6, ..)
TaskSimulate(j) ==
    /\ pc[j] = "simulate"
    /\ \/ /\ local' = [local EXCEPT ![j].sim =
                 Some([params |-> SimParams(futures[j].args),
                       thrust |-> local[j].model])]
          /\ jobs' = UpdateJobStatus(jobs, j, "running", 6,
                                     Msg("Simulation completed", ""))
          /\ pc' = [pc EXCEPT ![j] = "optimize"]
          /\ UNCHANGED <<fault, faults>>
       \/ /\ Raise(j, "inference error")
          /\ UNCHANGED jobs
    /\ UNCHANGED <<db_vars, futures, workq, pool_size, model_cache, trainings,
                   http_vars, seen, now, call, ret>>

\* what optimize_fuel_mixture can return: the two branches on result.success
OptimizeOutcomes ==
    {[success |-> TRUE], [success |-> FALSE, error |-> "solver message"]}

\* mutant: a result with success = False is raised as a fault
TaskOptimizeRaisesOnFailure(j) ==
    /\ pc[j] = "optimize"
    /\ \/ /\ IF futures[j].args.alpha # None
             THEN local' = [local EXCEPT ![j].opt = Some([success |-> TRUE])]
             ELSE local' = [local EXCEPT ![j].opt = None]
          /\ jobs' = UpdateJobStatus(jobs, j, "running", 9,
                                     Msg("Optimization completed", ""))
          /\ pc' = [pc EXCEPT ![j] = "commit"]
          /\ UNCHANGED <<fault, faults>>
       \/ /\ futures[j].args.alpha # None
          /\ Raise(j, "optimizer error")
          /\ UNCHANGED jobs
       \/ /\ futures[j].args.alpha # None
          /\ faults < MaxFaults
          /\ faults' = faults + 1
          /\ local' = [local EXCEPT
                 ![j].opt = Some([success |-> FALSE,
                                  error |-> "solver message"]),
                 ![j].err = "solver message"]
          /\ fault' = [fault EXCEPT ![j] = "solver message"]
          /\ pc' = [pc EXCEPT ![j] = "h_commit"]
          /\ UNCHANGED jobs
    /\ UNCHANGED <<db_vars, futures, workq, pool_size, model_cache, trainings,
                   http_vars, seen, now, call, ret>>

\* optimize_fuel_mixture if alpha is not None, then update_job_status(.., 0.9, ..)
TaskOptimize(j) ==
    /\ pc[j] = "optimize"
    /\ \/ /\ IF futures[j].args.alpha # None
             THEN \E r \in OptimizeOutcomes :
                      local' = [local EXCEPT ![j].opt = Some(r)]
             ELSE local' = [local EXCEPT ![j].opt = None]
          /\ jobs' = UpdateJobStatus(jobs, j, "running", 9,
                                     Msg("Optimization completed", ""))
          /\ pc' = [pc EXCEPT ![j] = "commit"]
          /\ UNCHANGED <<fault, faults>>
       \/ /\ futures[j].args.alpha # None
          /\ Raise(j, "optimizer error")
          /\ UNCHANGED jobs
    /\ UNCHANGED <<db_vars, futures, workq, pool_size, model_cache, trainings,
                   http_vars, seen, now, call, ret>>

\* the results dict of the success path
ResultsPayload(j) ==
    [simulation |-> local[j].sim, optimization |-> local[j].opt,
     model_metrics |-> model_cache["default"].metrics]

\* mutant: a statement after db.commit() raises inside the try block
TaskCommitThenRaise(j) ==
    /\ pc[j] = "commit"
    /\ "default" \in DOMAIN model_cache /\ j \in DOMAIN experiments
    /\ results' = Put(results, j,
           [status |-> "completed", data |-> Some(ResultsPayload(j)),
            error_message |-> None])
    /\ experiments' = [experiments EXCEPT ![j].status = "completed"]
    /\ Raise(j, "late error")
    /\ UNCHANGED <<queue_vars, model_cache, trainings, http_vars, seen, now, call, ret>>

\* mutant: the success path commits the Result row and leaves the Experiment
TaskCommitResultOnly(j) ==
    /\ pc[j] = "commit"
    /\ \/ /\ "default" \in DOMAIN model_cache /\ j \in DOMAIN experiments
          /\ j \notin DOMAIN results
          /\ results' = Put(results, j,
                 [status |-> "completed", data |-> Some(ResultsPayload(j)),
                  error_message |-> None])
          /\ experiments' = experiments
          /\ pc' = [pc EXCEPT ![j] = "completed"]
          /\ UNCHANGED <<local, fault, faults>>
       \/ /\ Raise(j, "database error")
          /\ UNCHANGED db_vars
    /\ UNCHANGED <<queue_vars, model_cache, trainings, http_vars, seen, now, call, ret>>

\* the success path's Result row and Experiment status, in one db.commit()
TaskCommit(j) ==
    /\ pc[j] = "commit"
    /\ \/ /\ "default" \in DOMAIN model_cache /\ j \in DOMAIN experiments
          /\ j \notin DOMAIN results
          /\ results' = Put(results, j,
                 [status |-> "completed", data |-> Some(ResultsPayload(j)),
                  error_message |-> None])
          /\ experiments' = [experiments EXCEPT ![j].status = "completed"]
          /\ pc' = [pc EXCEPT ![j] = "completed"]
          /\ UNCHANGED <<local, fault, faults>>
       \/ /\ Raise(j, "database error")
          /\ UNCHANGED db_vars
    /\ UNCHANGED <<queue_vars, model_cache, trainings, http_vars, seen, now, call, ret>>

\* update_job_status(job_id, "completed", 1.0, ..)
TaskCompleted(j) ==
    /\ pc[j] = "completed"
    /\ jobs' = UpdateJobStatus(jobs, j, "completed", 10,
                               Msg("Experiment completed successfully", ""))
    /\ pc' = [pc EXCEPT ![j] = "return"]
    /\ UNCHANGED <<db_vars, futures, workq, pool_size, local, model_cache,
                   trainings, fault, faults, http_vars, seen, now, call, ret>>

\* mutant: the except clause stores what the try block had computed
TaskFailCommitPartial(j) ==
    /\ pc[j] = "h_commit"
    /\ \/ /\ j \in DOMAIN experiments /\ j \notin DOMAIN results
          /\ results' = Put(results, j,
                 [status |-> "failed",
                  data |-> IF local[j].sim = None THEN None
                           ELSE Some([simulation |-> local[j].sim]),
                  error_message |-> Some(local[j].err)])
          /\ experiments' = [experiments EXCEPT ![j].status = "failed"]
          /\ pc' = [pc EXCEPT ![j] = "failed"]
          /\ UNCHANGED <<futures, local, faults>>
       \/ /\ faults < MaxFaults
          /\ faults' = faults + 1
          /\ futures' = [futures EXCEPT ![j].state = "raised",
                                        ![j].exc = "database error"]
          /\ pc' = [pc EXCEPT ![j] = "done"]
          /\ local' = [local EXCEPT ![j] = NoLocal]
          /\ UNCHANGED db_vars
    /\ UNCHANGED <<jobs, workq, pool_size, model_cache, trainings, fault,
                   http_vars, seen, now, call, ret>>

\* mutant: the except clause commits the Result row and leaves the Experiment
TaskFailCommitResultOnly(j) ==
    /\ pc[j] = "h_commit"
    /\ \/ /\ j \in DOMAIN experiments /\ j \notin DOMAIN results
          /\ results' = Put(results, j,
                 [status |-> "failed", data |-> None,
                  error_message |-> Some(local[j].err)])
          /\ experiments' = experiments
          /\ pc' = [pc EXCEPT ![j] = "failed"]
          /\ UNCHANGED <<futures, local, faults>>
       \/ /\ faults < MaxFaults
          /\ faults' = faults + 1
          /\ futures' = [futures EXCEPT ![j].state = "raised",
                                        ![j].exc = "database error"]
          /\ pc' = [pc EXCEPT ![j] = "done"]
          /\ local' = [local EXCEPT ![j] = NoLocal]
          /\ UNCHANGED db_vars
    /\ UNCHANGED <<jobs, workq, pool_size, model_cache, trainings, fault,
                   http_vars, seen, now, call, ret>>

\* the except clause's Result row and Experiment status, in one db.commit();
\* a fault here leaves the task through the Future
TaskFailCommit(j) ==
    /\ pc[j] = "h_commit"
    /\ \/ /\ j \in DOMAIN experiments /\ j \notin DOMAIN results
          /\ results' = Put(results, j,
                 [status |-> "failed", data |-> None,
                  error_message |-> Some(local[j].err)])
          /\ experiments' = [experiments EXCEPT ![j].status = "failed"]
          /\ pc' = [pc EXCEPT ![j] = "failed"]
          /\ UNCHANGED <<futures, local, faults>>
       \/ /\ faults < MaxFaults
          /\ faults' = faults + 1
          /\ futures' = [futures EXCEPT ![j].state = "raised",
                                        ![j].exc = "database error"]
          /\ pc' = [pc EXCEPT ![j] = "done"]
          /\ local' = [local EXCEPT ![j] = NoLocal]
          /\ UNCHANGED db_vars
    /\ UNCHANGED <<jobs, workq, pool_size, model_cache, trainings, fault,
                   http_vars, seen, now, call, ret>>

\* update_job_status(job_id, "failed", 0.0, f"Experiment failed: {error_msg}")
TaskFailed(j) ==
    /\ pc[j] = "failed"
    /\ jobs' = UpdateJobStatus(jobs, j, "failed", 0,
                               Msg("Experiment failed", local[j].err))
    /\ pc' = [pc EXCEPT ![j] = "return"]
    /\ UNCHANGED <<db_vars, futures, workq, pool_size, local, model_cache,
                   trainings, fault, faults, http_vars, seen, now, call, ret>>

\* the task returns: the pool thread sets the Future's result
TaskReturn(j) ==
    /\ pc[j] = "return"
    /\ futures' = [futures EXCEPT ![j].state = "finished"]
    /\ pc' = [pc EXCEPT ![j] = "done"]
    /\ local' = [local EXCEPT ![j] = NoLocal]
    /\ UNCHANGED <<db_vars, jobs, workq, pool_size, model_cache, trainings,
                   fault, faults, http_vars, seen, now, call, ret>>

Task(j) ==
    \/ TaskStart(j)
    \/ TaskBegin(j)
    \/ GetModelCheck(j)
    \/ GetModelTrain(j)
    \/ GetModelStore(j)
    \/ GetModelReturn(j)
    \/ TaskModelLoaded(j)
    \/ TaskSimulate(j)
    \/ TaskOptimize(j)
    \/ TaskCommit(j)
    \/ TaskCompleted(j)
    \/ TaskFailCommit(j)
    \/ TaskFailed(j)
    \/ TaskReturn(j)

Next ==
    \/ PostRunInvalid
    \/ RunExperiment
    \/ EnqueueRegister
    \/ EnqueueSubmit
    \/ EnqueueFinish
    \/ \E j \in JobIds : ApiGetJobStatus(j)
    \/ \E j \in JobIds : ApiGetJobResult(j)
    \/ \E j \in JobIds : GetJobStatusCall(j)
    \/ \E j \in JobIds : Task(j)

Spec == Init /\ [][Next]_vars

\* job_queue = JobQueue(max_workers=1): one task fills the pool
InitSmallPool == Start /\ pool_size = 1 /\ call = NoCall

SpecSmallPool == InitSmallPool /\ [][Next]_vars

\* Scheduling: the event loop runs the handler it has started to its end
\* (run_experiment has no await), every pool thread that has a task to run or
\* to continue eventually takes its next step, and the client of
\* GET /status/{id} keeps polling each job.
Fairness ==
    /\ WF_vars(EnqueueRegister \/ EnqueueSubmit \/ EnqueueFinish)
    /\ \A j \in JobIds : WF_vars(Task(j))
    /\ \A j \in JobIds : WF_vars(ApiGetJobStatus(j))

FairSpec == Init /\ [][Next]_vars /\ Fairness

\* JobQueue.enqueue_job called with an identifier that is already in the job
\* table (a caller other than run_experiment, whose identifiers are fresh).
\* The call is taken when the identifier's first task has returned, and as
\* one step: first locked section, executor.submit, second locked section.
EnqueueJobExisting(j) ==
    /\ j \in DOMAIN jobs /\ pc[j] = "done"
    /\ jobs' = StoreFuture(Put(jobs, j, NewJobRecord(now)), j)
    /\ futures' = Put(futures, j,
                      [state |-> "pending", exc |-> "",
                       args |-> futures[j].args])
    /\ workq' = Append(workq, j)
    /\ pc' = [pc EXCEPT ![j] = "pending"]
    /\ UNCHANGED <<db_vars, pool_size, local, model_cache, trainings, fault,
                   faults, http_vars, seen, now, call, ret>>

\* the job queue with such a caller: submissions, tasks, polls of the queue
NextDuplicate ==
    \/ RunExperiment
    \/ EnqueueRegister
    \/ EnqueueSubmit
    \/ EnqueueFinish
    \/ \E j \in JobIds : GetJobStatusCall(j)
    \/ \E j \in JobIds : Task(j)
    \/ \E j \in JobIds : EnqueueJobExisting(j)

SpecDuplicate == Init /\ [][NextDuplicate]_vars

\* ------------------------------------- JobQueue.cleanup_completed_jobs
\* the clock advances by an hour
Tick ==
    /\ now < MaxTime
    /\ now' = now + 1
    /\ UNCHANGED <<db_vars, queue_vars, task_vars, http_vars, seen, call, ret>>

\* values of max_age_hours an external collaborator may pass
MaxAgeValues == {0, 1}

\* mutant: the status is not looked at
KeptByCleanupAgeOnly(tbl, t, max_age_hours) ==
    {k \in DOMAIN tbl : ~(tbl[k].created_at < t - max_age_hours)}

\* the records cleanup_completed_jobs keeps: all but those with a completed
\* or failed status and created_at before the cutoff (time in hours)
KeptByCleanup(tbl, t, max_age_hours) ==
    {k \in DOMAIN tbl :
        ~(tbl[k].status \in {"completed", "failed"}
            /\ tbl[k].created_at < t - max_age_hours)}

\* cleanup_completed_jobs(max_age_hours), called from any thread
CleanupCompletedJobs(max_age_hours) ==
    /\ jobs' = [k \in KeptByCleanup(jobs, now, max_age_hours) |-> jobs[k]]
    /\ UNCHANGED <<db_vars, futures, workq, pool_size, task_vars, http_vars,
                   seen, now, call, ret>>

\* the job queue with a collaborator that calls cleanup, as time passes
NextCleanup ==
    \/ RunExperiment
    \/ EnqueueRegister
    \/ EnqueueSubmit
    \/ EnqueueFinish
    \/ \E j \in JobIds : GetJobStatusCall(j)
    \/ \E j \in JobIds : Task(j)
    \/ Tick
    \/ \E m \in MaxAgeValues : CleanupCompletedJobs(m)

\* (a one-worker pool: cleanup does not look at the pool)
SpecCleanup == InitSmallPool /\ [][NextCleanup]_vars

\* ------------------------------------------- engine.optimize_fuel_mixture
\* bounds = [(2, 6), (1, 10), (2500, 5000)]
OptBounds == <<<<2, 6>>, <<1, 10>>, <<2500, 5000>>>>

\* 'isp': 300.0 of optimal_params
OptIsp == 300

\* points <<O_F, p, T>> the solver may stop at: on, inside and outside the
\* bounds
XCandidates ==
    {<<o, p, t>> : o \in {1, 2, 6, 7}, p \in {0, 1, 10, 11},
                   t \in {2499, 2500, 3000, 4000, 4001, 5000, 5001}}

\* scipy.optimize.minimize(objective, x0, bounds=, constraints=[ineq]), by
\* its contract: a result with success = True has x inside the bounds with
\* the inequality function (ineq) >= 0 at x; any such point may be returned
\* (the objective is not modelled).  Otherwise success = False.
MinimizeSuccesses(bounds, ineq) ==
    {x \in XCandidates :
        /\ \A i \in 1..3 : bounds[i][1] <= x[i] /\ x[i] <= bounds[i][2]
        /\ ineq[x] >= 0}

\* mutant: the constraint is written with the wrong sign (x[2] - max_temp)
OptimizeFuelMixtureWrongSign(alpha, max_temp) ==
    IF max_temp = None
    THEN {[raised |-> Some("TypeError"), success |-> FALSE,
           optimal_params |-> None, error |-> None]}
    ELSE LET Ineq == [x \in XCandidates |-> x[3] - max_temp[1]] IN
         {[raised |-> None, success |-> TRUE,
           optimal_params |-> Some([O_F_ratio |-> x[1], pressure |-> x[2],
                                    temp |-> x[3], isp |-> OptIsp]),
           error |-> None] : x \in MinimizeSuccesses(OptBounds, Ineq)}
         \cup {[raised |-> None, success |-> FALSE, optimal_params |-> None,
                error |-> Some("solver message")]}

\* optimize_fuel_mixture(model, alpha, max_temp): the values it can return.
\* With max_temp None the constraint function raises TypeError.
OptimizeFuelMixture(alpha, max_temp) ==
    IF max_temp = None
    THEN {[raised |-> Some("TypeError"), success |-> FALSE,
           optimal_params |-> None, error |-> None]}
    ELSE LET Ineq == [x \in XCandidates |-> max_temp[1] - x[3]] IN
         {[raised |-> None, success |-> TRUE,
           optimal_params |-> Some([O_F_ratio |-> x[1], pressure |-> x[2],
                                    temp |-> x[3], isp |-> OptIsp]),
           error |-> None] : x \in MinimizeSuccesses(OptBounds, Ineq)}
         \cup {[raised |-> None, success |-> FALSE, optimal_params |-> None,
                error |-> Some("solver message")]}

\* arguments of a direct call: alpha in tenths, max_temp possibly None
OptimizeCalls ==
    [fn : {"optimize_fuel_mixture"}, alpha : {0, 5, 10},
     max_temp : {None, Some(2000), Some(2500), Some(3000), Some(4000),
                 Some(5000), Some(6000)}]

InitOptimize == Start /\ pool_size = max_workers /\ call \in OptimizeCalls

\* the call returns (or raises)
OptimizeCall ==
    /\ call.fn = "optimize_fuel_mixture" /\ ret = None
    /\ \E r \in OptimizeFuelMixture(call.alpha, call.max_temp) : ret' = Some(r)
    /\ UNCHANGED <<db_vars, queue_vars, task_vars, http_vars, seen, now, call>>

NextOptimize == OptimizeCall

SpecOptimize == InitOptimize /\ [][NextOptimize]_vars

FairSpecSmallPool == InitSmallPool /\ [][Next]_vars /\ Fairness


\* ======================================================================
\* Properties
\* ======================================================================

\* the status get_job_status(j) answers in the current state
StatusNow(j) == GetJobStatusReply(jobs, futures, j).status

\* C1: once some get_job_status(j) has answered completed or failed, every
\* later get_job_status(j) answers that same status.  A call is possible in
\* every state, so this is: in every state after such an answer, the answer
\* a call would give is still that status.
C1_TerminalAnswerIsStable ==
    \A j \in JobIds : seen[j] # "none" => StatusNow(j) = seen[j]

\* C2: the stored status is one of the four, and it changes only along
\* queued -> running, running -> completed and running -> failed.
StatusSteps ==
    {<<"queued", "running">>, <<"running", "completed">>,
     <<"running", "failed">>}

C2_StatusFollowsStateMachine ==
    /\ [](\A j \in DOMAIN jobs :
            jobs[j].status \in {"queued", "running", "completed", "failed"})
    /\ [][\A j \in DOMAIN jobs \cap DOMAIN jobs' :
            jobs'[j].status # jobs[j].status
                => <<jobs[j].status, jobs'[j].status>> \in StatusSteps]_vars

\* C3: after GET /status/{id} has reported completed, GET /result/{id}
\* answers 200 with a completed Result and a payload.
C3_CompletedStatusHasCompletedResult ==
    (resp.op = "status" /\ resp.code = 200 /\ resp.status = "completed")
        => LET r == ResultResponse(experiments, results, resp.job_id)
           IN  r.code = 200 /\ r.status = "completed" /\ r.results # None

\* C4: when a step of the task's try block has raised and the task has
\* returned, the Result is failed with the fault's text, and get_job_status
\* answers failed.  (Stated for the tasks whose except clause ran to its end.)
C4_FaultIsReportedFailed ==
    \A j \in JobIds :
        (fault[j] # "" /\ pc[j] = "done" /\ futures[j].state = "finished")
            => /\ j \in DOMAIN results
               /\ results[j].status = "failed"
               /\ results[j].error_message = Some(fault[j])
               /\ StatusNow(j) = "failed"


\* C5 as claimed: a Result row exists exactly when the status in the job
\* table is completed or failed.
C5_ResultIffTerminalStatus ==
    \A j \in JobIds :
        j \in DOMAIN results
            <=> (j \in DOMAIN jobs /\ jobs[j].status \in Terminal)

\* C5 amended: a completed or failed status in the job table has a Result
\* row, unless the task's except clause itself raised (get_job_status then
\* takes failed from the Future).  The converse is not claimed: the row is
\* committed before the status is written.
C5_TerminalStatusHasResult ==
    \A j \in DOMAIN jobs :
        jobs[j].status \in Terminal
            => \/ j \in DOMAIN results
               \/ j \in DOMAIN futures /\ futures[j].state = "raised"

C5_Witness ==
    \E j \in DOMAIN jobs, k \in DOMAIN jobs :
        /\ jobs[j].status \in Terminal /\ j \in DOMAIN results
        /\ jobs[k].status = "running" /\ k \in DOMAIN results

\* C6: the Result row of a job is written once, by the job's own commit at
\* the end of the try block or of the except clause (its status says which),
\* a task that has returned has written it, and no step changes or removes
\* a row that exists.
C6_ResultWrittenOnce ==
    /\ [](\A j \in DOMAIN results :
            pc[j] \in {"completed", "failed", "return", "done"})
    /\ [](\A j \in DOMAIN futures :
            futures[j].state = "finished" => j \in DOMAIN results)
    /\ [][\A j \in DOMAIN results :
            j \in DOMAIN results' /\ results'[j] = results[j]]_vars
    /\ [][\A j \in DOMAIN results' \ DOMAIN results :
            \/ /\ pc[j] = "commit" /\ pc'[j] = "completed"
               /\ results'[j].status = "completed"
               /\ results'[j].error_message = None
            \/ /\ pc[j] = "h_commit" /\ pc'[j] = "failed"
               /\ results'[j].status = "failed"
               /\ results'[j].data = None]_vars

C6_Witness ==
    \E j \in DOMAIN results, k \in DOMAIN results :
        /\ results[j].status = "completed" /\ seen[j] = "completed"
        /\ results[k].status = "failed" /\ pc[k] = "done"

\* C7: get_job_status of an identifier enqueue_job has not registered answers
\* not_found with progress 0 and leaves the table as it is; from the
\* registration on it never answers not_found.
Registered(j) ==
    \/ j \in DOMAIN futures
    \/ loop.job_id = j /\ loop.pc \in {"submit", "finish"}

C7_NotFoundIffUnregistered ==
    \A j \in JobIds :
        IF Registered(j)
        THEN StatusNow(j) # "not_found"
        ELSE /\ StatusNow(j) = "not_found"
             /\ GetJobStatusReply(jobs, futures, j).progress = 0
             /\ GetJobStatusTable(jobs, futures, j) = jobs
             /\ j \notin DOMAIN jobs

C7_Witness ==
    /\ loop.pc = "finish" /\ jobs[loop.job_id].future = 0
    /\ seen[loop.job_id] # "none"
    /\ \E k \in JobIds : ~Registered(k) /\ resp = [op |-> "status", code |-> 404,
                                                  job_id |-> k]

\* C8: the declared bounds of the five checked fields
InBounds(p) ==
    /\ p.O_F_ratio \in 2..6
    /\ p.pressure \in 1..10
    /\ p.temp \in 2500..5000
    /\ p.isp \in 200..450
    /\ p.alpha = None \/ p.alpha[1] \in 0..10

\* C8: no Experiment row, job record, task or Result row belongs to a request
\* with a field out of bounds, and a step that answers 422 changes nothing
\* but the response.
C8_InvalidRequestHasNoEffect ==
    /\ [](\A j \in DOMAIN experiments \cup DOMAIN jobs \cup DOMAIN futures
                    \cup DOMAIN results :
            /\ j \in DOMAIN experiments
            /\ InBounds(experiments[j].params))
    /\ [](loop.pc # "idle" => InBounds(loop.params))
    /\ [][(resp' # resp /\ resp'.op = "run" /\ resp'.code = 422)
            => UNCHANGED <<experiments, results, jobs, futures, workq, pc,
                           loop>>]_vars

C8_Witness ==
    /\ resp = [op |-> "run", code |-> 422, job_id |-> 0]
    /\ \E j \in DOMAIN futures : futures[j].state = "running"

\* number of tasks submitted for j: waiting in the pool, or taken by a thread
Tasks(j) ==
    Cardinality({i \in 1..Len(workq) : workq[i] = j})
        + (IF pc[j] \notin {"none", "pending"} THEN 1 ELSE 0)

\* C9: a valid POST /run is accepted in every state, whatever the pool holds
\* (no step of it waits); it adds one Experiment row with status queued, one
\* job record and one task, and answers the identifier with status queued.
C9_ValidRunAlwaysAccepted ==
    /\ []((loop.pc = "idle" /\ JobIds \ DOMAIN experiments # {})
            => ENABLED RunExperiment)
    /\ [](loop.pc = "enqueue" => ENABLED EnqueueRegister)
    /\ [](loop.pc = "submit" => ENABLED EnqueueSubmit)
    /\ [](loop.pc = "finish" => ENABLED EnqueueFinish)
    /\ [][(loop.pc = "idle" /\ loop'.pc = "enqueue")
            => LET id == loop'.job_id IN
               /\ id \notin DOMAIN experiments
               /\ DOMAIN experiments' = DOMAIN experiments \cup {id}
               /\ experiments'[id].status = "queued"
               /\ experiments'[id].params = loop'.params]_vars
    /\ [][(loop.pc = "enqueue" /\ loop'.pc = "submit")
            => /\ loop.job_id \notin DOMAIN jobs
               /\ DOMAIN jobs' = DOMAIN jobs \cup {loop.job_id}]_vars
    /\ [][(loop.pc = "finish" /\ loop'.pc = "idle")
            => resp' = [op |-> "run", code |-> 200, job_id |-> loop.job_id,
                        status |-> "queued",
                        message |-> Msg("Experiment queued successfully", "")]]_vars
    /\ [](\A j \in JobIds :
            Tasks(j) = IF j \in DOMAIN futures THEN 1 ELSE 0)
    /\ [](\A j \in DOMAIN experiments :
            (loop.job_id # j) => (j \in DOMAIN jobs /\ j \in DOMAIN futures))

C9_Witness ==
    /\ resp.op = "run" /\ resp.code = 200
    /\ Busy = pool_size
    /\ workq = <<resp.job_id>>

\* C10: GET /status/{id} answers 404 exactly when no Experiment row has the
\* identifier; otherwise it answers 200 with what get_job_status returns and
\* the creation time of the Experiment row.
C10_StatusResponse ==
    [][\A j \in JobIds :
         (resp' # resp /\ resp'.op = "status" /\ resp'.job_id = j)
            => IF j \notin DOMAIN experiments
               THEN resp'.code = 404
               ELSE LET r == GetJobStatusReply(jobs, futures, j) IN
                    /\ resp'.code = 200
                    /\ resp'.status = r.status
                    /\ resp'.progress = r.progress
                    /\ resp'.message = r.message
                    /\ resp'.created_at = experiments[j].created_at]_vars

C10_Witness ==
    /\ resp.op = "status" /\ resp.code = 200
    /\ resp.status = "running" /\ resp.progress = 6
    /\ \E k \in JobIds : k \notin DOMAIN experiments

\* C11: GET /result/{id} answers 404 exactly when no Result row has the
\* identifier; a 200 response carries the row's status, a payload only when
\* that status is completed, an error string only when it is failed, and
\* never both.
C11_ResultResponse ==
    [][\A j \in JobIds :
         (resp' # resp /\ resp'.op = "result" /\ resp'.job_id = j)
            => IF j \notin DOMAIN results
               THEN resp'.code = 404
               ELSE /\ resp'.code = 200
                    /\ resp'.status = results[j].status
                    /\ resp'.results # None => resp'.status = "completed"
                    /\ resp'.error # None => resp'.status = "failed"
                    /\ resp'.results = None \/ resp'.error = None]_vars

C11_Witness ==
    /\ resp.op = "result" /\ resp.code = 200
    /\ resp.status = "failed" /\ resp.error # None /\ resp.results = None
    /\ \E k \in DOMAIN experiments : k \notin DOMAIN results

\* C12: under fair scheduling and a client that keeps polling, every job
\* POST /run has accepted (its Experiment row is committed) is eventually
\* answered completed or failed by get_job_status, also when its task ends
\* before enqueue_job's second locked section.
C12_EveryJobReachesTerminal ==
    \A j \in JobIds : (j \in DOMAIN experiments) ~> (seen[j] \in Terminal)

C12_Witness ==
    /\ \A j \in JobIds : seen[j] \in Terminal
    /\ \E j \in JobIds : fault[j] # "" /\ seen[j] = "completed"

\* the jobs whose task body is executing on a pool thread
Executing == {j \in JobIds : pc[j] \notin {"none", "pending", "done"}}

\* C13: never more task bodies execute than the pool has workers; a task
\* leaves the pool's queue only in a step that finds a worker free, so a job
\* enqueued while all workers are busy waits; and every waiting task is
\* eventually started.
C13_PoolBoundsParallelism ==
    /\ [](Cardinality(Executing) <= pool_size /\ Busy = Cardinality(Executing))
    /\ [][\A j \in JobIds :
            (pc[j] = "pending" /\ pc'[j] # "pending")
                => /\ Cardinality(Executing) < pool_size
                   /\ pc'[j] = "start"]_vars
    /\ [](\A j \in JobIds :
            (pc[j] = "pending" /\ Cardinality(Executing) = pool_size)
                => ~ENABLED TaskStart(j))
    /\ \A j \in JobIds : (pc[j] = "pending") ~> (pc[j] = "start")

C13_Witness ==
    /\ Cardinality(Executing) = pool_size
    /\ \E j \in JobIds :
         /\ pc[j] = "pending" /\ workq = <<j>>
         /\ jobs[j].status = "running" /\ loop.pc = "idle"

\* C14: an enqueue_job of an identifier that is already in the job table
\* fails: it leaves the record as it is and submits no task.
C14_EnqueueExistingFails ==
    [][\A j \in JobIds :
         EnqueueJobExisting(j)
            => /\ jobs'[j] = jobs[j]
               /\ workq' = workq /\ futures' = futures
               /\ pc'[j] = pc[j]]_vars

\* C15: a failed Result has no payload, also when the fault came after the
\* simulation step had succeeded; a completed Result has a payload with the
\* simulation result and, exactly when alpha was given, the optimization
\* result.
C15_NoPartialResults ==
    \A j \in DOMAIN results :
        /\ results[j].status \in {"completed", "failed"}
        /\ results[j].status = "failed"
            => (results[j].data = None /\ results[j].error_message # None)
        /\ results[j].status = "completed"
            => /\ results[j].data # None
               /\ results[j].data[1].simulation # None
               /\ (experiments[j].params.alpha # None)
                    <=> (results[j].data[1].optimization # None)

C15_Witness ==
    \E j \in DOMAIN results, k \in DOMAIN results :
        /\ results[j].status = "failed" /\ results[j].data = None
        /\ results[j].error_message = Some("optimizer error")
        /\ results[k].status = "completed"
        /\ results[k].data[1].optimization # None

\* an optimization result that reports non-convergence
NotConverged(opt) == opt # None /\ ~opt[1].success

\* C16: non-convergence of the optimizer is a returned value, not a fault:
\* the step that gets success = False (with the solver's message) goes on to
\* the commit of the success path; unless a later step faults, the Result is
\* written completed with that value as its optimization, and a completed
\* Result with a non-converged optimization is never reported failed and is
\* reported completed once the task has returned.
C16_NonConvergenceIsNotFailure ==
    /\ [][\A j \in JobIds :
            (local'[j].opt # local[j].opt /\ NotConverged(local'[j].opt))
                => /\ pc[j] = "optimize" /\ pc'[j] = "commit"
                   /\ fault'[j] = fault[j]
                   /\ local'[j].opt[1].error = "solver message"]_vars
    /\ [](\A j \in JobIds :
            (NotConverged(local[j].opt) /\ fault[j] = "")
                => /\ pc[j] \in {"commit", "completed", "return"}
                   /\ pc[j] # "commit"
                        => /\ j \in DOMAIN results
                           /\ results[j].status = "completed"
                           /\ results[j].data[1].optimization = local[j].opt)
    /\ [](\A j \in DOMAIN results :
            (results[j].status = "completed"
                /\ NotConverged(results[j].data[1].optimization))
                => /\ StatusNow(j) # "failed" /\ seen[j] # "failed"
                   /\ pc[j] = "done" => StatusNow(j) = "completed")

C16_Witness ==
    \E j \in DOMAIN results :
        /\ results[j].status = "completed"
        /\ NotConverged(results[j].data[1].optimization)
        /\ pc[j] = "done" /\ seen[j] = "completed"
        /\ resp.op = "result" /\ resp.job_id = j /\ resp.code = 200

\* C17: the model is trained at most once: no train_model call returns after
\* an earlier one has, whatever the interleaving of the jobs' tasks.
C17_ModelTrainedOnce == trainings <= 1

\* C18: a returned value with success = True has optimal_params inside the
\* declared bounds, with temp <= max_temp and isp = 300.
C18_SuccessRespectsBounds ==
    (ret # None /\ ret[1].success)
        => LET x == ret[1].optimal_params[1] IN
           /\ ret[1].raised = None
           /\ 2 <= x.O_F_ratio /\ x.O_F_ratio <= 6
           /\ 1 <= x.pressure /\ x.pressure <= 10
           /\ 2500 <= x.temp /\ x.temp <= 5000
           /\ x.temp <= call.max_temp[1]
           /\ x.isp = 300

C18_Witness ==
    /\ ret # None /\ ret[1].success
    /\ call.max_temp = Some(3000) /\ ret[1].optimal_params[1].temp = 3000
    /\ call.alpha = 10

\* C19: a get_job_status(j) step on a record whose handle is done and whose
\* status is neither completed nor failed sets completed with progress 1.0
\* if the task returned, failed with the fault's text in the message if it
\* raised, and leaves created_at, the handle and every other record alone;
\* a get_job_status(j) step in any other case leaves the whole table as it is.
C19_LazyResolution ==
    [][\A j \in DOMAIN jobs :
         (GetJobStatusCall(j) \/ ApiGetJobStatus(j))
            => LET rec == jobs[j]
                   done == /\ rec.future # 0
                           /\ futures[rec.future].state
                                \in {"finished", "raised"}
               IN  IF done /\ rec.status \notin {"completed", "failed"}
                   THEN /\ DOMAIN jobs' = DOMAIN jobs
                        /\ \A k \in DOMAIN jobs \ {j} : jobs'[k] = jobs[k]
                        /\ jobs'[j].created_at = rec.created_at
                        /\ jobs'[j].future = rec.future
                        /\ futures[rec.future].state = "finished"
                            => /\ jobs'[j].status = "completed"
                               /\ jobs'[j].progress = 10
                        /\ futures[rec.future].state = "raised"
                            => /\ jobs'[j].status = "failed"
                               /\ jobs'[j].message[2]
                                      = futures[rec.future].exc
                   ELSE jobs' = jobs]_vars

C19_Witness ==
    \E j \in DOMAIN jobs, k \in DOMAIN jobs :
        /\ jobs[j].status = "failed"
        /\ jobs[j].message = Msg("Job failed", "database error")
        /\ jobs[k].status = "completed"
        /\ jobs[k].message = Msg("Job completed", "")

\* the update_job_status calls of the task: position before, position after,
\* status and progress written
TaskUpdates ==
    {<<"start", "model_check", "running", 1>>,
     <<"model_loaded", "simulate", "running", 3>>,
     <<"simulate", "optimize", "running", 6>>,
     <<"optimize", "commit", "running", 9>>,
     <<"completed", "return", "completed", 10>>,
     <<"failed", "return", "failed", 0>>}

\* C20: enqueue_job registers the record (queued, progress 0, no handle)
\* before the task exists, so the record is there for as long as a task is;
\* every update_job_status of the task is applied to it, with or without the
\* handle stored; and when enqueue_job returns before the task has written,
\* the record reads running.
C20_UpdatesFindTheRecord ==
    /\ [](\A j \in JobIds : pc[j] # "none" => j \in DOMAIN jobs)
    /\ [][(loop.pc = "enqueue" /\ loop'.pc = "submit")
            => /\ pc[loop.job_id] = "none"
               /\ loop.job_id \notin DOMAIN futures
               /\ jobs'[loop.job_id].status = "queued"
               /\ jobs'[loop.job_id].progress = 0
               /\ jobs'[loop.job_id].future = 0]_vars
    /\ [][\A j \in JobIds : \A u \in TaskUpdates :
            (pc[j] = u[1] /\ pc'[j] = u[2])
                => /\ jobs'[j].status = u[3]
                   /\ jobs'[j].progress = u[4]]_vars
    /\ [][(loop.pc = "finish" /\ loop'.pc = "idle"
                /\ pc[loop.job_id] \in {"pending", "start"})
            => /\ jobs'[loop.job_id].status = "running"
               /\ jobs'[loop.job_id].future # 0]_vars

C20_Witness ==
    /\ loop.pc = "finish"
    /\ pc[loop.job_id] = "done"
    /\ jobs[loop.job_id].future = 0
    /\ jobs[loop.job_id].status = "completed"
    /\ jobs[loop.job_id].progress = 10

\* the message text of the task's update_job_status calls, by the position
\* the task is in after the call
UpdateTexts ==
    {<<"model_check", "Starting experiment">>,
     <<"simulate", "Model loaded">>,
     <<"optimize", "Simulation completed">>,
     <<"commit", "Optimization completed">>,
     <<"return", "Experiment completed successfully">>,
     <<"return", "Experiment failed">>}

\* arguments of an update_job_status call
UpdateArgs ==
    {"running", "completed", "failed"} \X {0, 5, 10}
        \X {Msg("Working", ""), Msg("Experiment failed", "training error")}

\* C21: update_job_status of an identifier that is not in the table leaves
\* the table as it is; of one that is, it replaces the record's status,
\* progress and message by its arguments in one step (under the lock every
\* reader takes) and leaves created_at, the handle, the other records and the
\* set of records alone.  Stated of the call in every reachable state, and of
\* every update step the tasks take.
C21_UpdateStatusFrame ==
    /\ [](\A j \in JobIds : \A a \in UpdateArgs :
            LET t == UpdateJobStatus(jobs, j, a[1], a[2], a[3]) IN
            IF j \notin DOMAIN jobs THEN t = jobs
            ELSE /\ DOMAIN t = DOMAIN jobs
                 /\ \A k \in DOMAIN jobs \ {j} : t[k] = jobs[k]
                 /\ t[j] = [status |-> a[1], progress |-> a[2],
                            message |-> a[3],
                            created_at |-> jobs[j].created_at,
                            future |-> jobs[j].future])
    /\ [][\A j \in JobIds : \A u \in TaskUpdates :
            (pc[j] = u[1] /\ pc'[j] = u[2])
                => /\ DOMAIN jobs' = DOMAIN jobs
                   /\ \A k \in DOMAIN jobs \ {j} : jobs'[k] = jobs[k]
                   /\ jobs'[j].created_at = jobs[j].created_at
                   /\ jobs'[j].future = jobs[j].future
                   /\ jobs'[j].status = u[3] /\ jobs'[j].progress = u[4]
                   /\ <<u[2], jobs'[j].message[1]>> \in UpdateTexts]_vars

C21_Witness ==
    /\ 1 \in DOMAIN jobs /\ 2 \notin DOMAIN jobs
    /\ jobs[1].progress = 3 /\ jobs[1].message = Msg("Model loaded", "")
    /\ jobs[1].future = 0

\* C22: a cleanup_completed_jobs(max_age) step removes exactly the records
\* that are completed or failed and older than max_age, and leaves the others
\* as they are; a record that leaves the table was completed or failed and
\* older than the least max_age, and it leaves in a cleanup step.
C22_CleanupRemovesOldTerminal ==
    /\ [][\A m \in MaxAgeValues :
            CleanupCompletedJobs(m)
                => /\ DOMAIN jobs \ DOMAIN jobs'
                        = {k \in DOMAIN jobs :
                              /\ jobs[k].status \in Terminal
                              /\ now - jobs[k].created_at > m}
                   /\ DOMAIN jobs' \subseteq DOMAIN jobs
                   /\ \A k \in DOMAIN jobs' : jobs'[k] = jobs[k]]_vars
    /\ [][\A k \in DOMAIN jobs \ DOMAIN jobs' :
            /\ jobs[k].status \in Terminal
            /\ now - jobs[k].created_at > 0
            /\ \E m \in MaxAgeValues : CleanupCompletedJobs(m)]_vars

C22_Witness ==
    /\ 1 \in DOMAIN futures /\ 1 \notin DOMAIN jobs
    /\ 2 \in DOMAIN jobs /\ jobs[2].status = "running"
    /\ now - jobs[2].created_at > 1

\* the progress a task that has not failed has last pushed, by its position
Pushed(p) ==
    CASE p \in {"none", "pending", "start"} -> 0
      [] p \in {"model_check", "model_train", "model_store", "model_return",
                "model_loaded"} -> 1
      [] p = "simulate" -> 3
      [] p = "optimize" -> 6
      [] p \in {"commit", "completed"} -> 9
      [] OTHER -> 10

\* C23: a task pushes 0.1, 0.3, 0.6, 0.9 and 1.0 in this order, each after
\* its step is done (the model is loaded, the simulation result is there,
\* the optimization result is there if alpha was given, the Result row is
\* committed), so the record of a job whose task has not failed shows the
\* checkpoint of the task's position, and the progress get_job_status
\* answers for such a job never decreases.
C23_ProgressCheckpoints ==
    /\ [](\A j \in DOMAIN jobs :
            fault[j] = "" => jobs[j].progress = Pushed(pc[j]))
    /\ [][\A j \in JobIds :
            /\ (pc[j] = "model_loaded" /\ pc'[j] = "simulate")
                => local[j].model # None
            /\ (pc[j] = "simulate" /\ pc'[j] = "optimize")
                => local'[j].sim # None
            /\ (pc[j] = "optimize" /\ pc'[j] = "commit")
                => (futures[j].args.alpha # None => local'[j].opt # None)
            /\ (pc[j] = "completed" /\ pc'[j] = "return")
                => (j \in DOMAIN results /\ results[j].status = "completed")
       ]_vars
    /\ [][\A j \in JobIds :
            fault'[j] = ""
                => GetJobStatusReply(jobs', futures', j).progress
                      >= GetJobStatusReply(jobs, futures, j).progress]_vars

C23_Witness ==
    /\ resp.op = "status" /\ resp.code = 200 /\ resp.progress = 9
    /\ fault[resp.job_id] = ""
    /\ jobs[resp.job_id].progress = 10

\* progress (in tenths) fits the status
ProgressFits(r) ==
    /\ r.progress \in 0..10
    /\ r.status = "completed" => r.progress = 10
    /\ r.status = "failed" => r.progress = 0
    /\ r.status = "queued" => r.progress = 0

\* C24: every job record has 0.0 <= progress <= 1.0, with progress 1.0 when
\* its status is completed and 0.0 when its status is failed or queued; the
\* same holds of what get_job_status would answer for any identifier.
C24_ProgressFitsStatus ==
    /\ \A j \in DOMAIN jobs : ProgressFits(jobs[j])
    /\ \A j \in JobIds : ProgressFits(GetJobStatusReply(jobs, futures, j))

C24_Witness ==
    /\ 1 \in DOMAIN jobs /\ jobs[1].status = "failed"
    /\ futures[1].state = "raised"
    /\ 2 \in DOMAIN jobs /\ jobs[2].status = "completed"

\* C25: whenever the record of a job in the queue has status completed or
\* failed, a Result row exists for the job and has the same status (stated
\* for the jobs whose task did not end by raising).
C25_QueueAgreesWithResult ==
    \A j \in DOMAIN jobs :
        (/\ jobs[j].status \in Terminal
         /\ ~(j \in DOMAIN futures /\ futures[j].state = "raised"))
            => (j \in DOMAIN results /\ results[j].status = jobs[j].status)

\* C26: the Experiment status and the Result row change in the same step; a
\* Result exists for a job exactly when its Experiment status is completed
\* or failed, and the two statuses are then equal; the Experiment status is
\* one of queued, completed, failed, and a completed or failed Experiment
\* and its Result never change again.
C26_ExperimentAndResultTogether ==
    /\ [](\A j \in JobIds :
            /\ j \in DOMAIN results
                  <=> (j \in DOMAIN experiments
                       /\ experiments[j].status \in Terminal)
            /\ j \in DOMAIN results
                  => results[j].status = experiments[j].status
            /\ j \in DOMAIN experiments
                  => experiments[j].status \in {"queued", "completed", "failed"})
    /\ [][\A j \in DOMAIN experiments :
            /\ experiments'[j].status # experiments[j].status
                  <=> (j \notin DOMAIN results /\ j \in DOMAIN results')
            /\ experiments[j].status \in Terminal
                  => (experiments'[j] = experiments[j]
                      /\ results'[j] = results[j])]_vars

C26_Witness ==
    /\ 1 \in DOMAIN results /\ results[1].status = "completed"
    /\ experiments[1].status = "completed"
    /\ 2 \in DOMAIN results /\ results[2].status = "failed"
    /\ experiments[2].status = "failed"

\* C27 as stated: the Experiment status becomes completed or failed only in
\* a step of a status poll, and a job whose task has finished and whose
\* record has not been resolved by a poll since has Experiment status running.
C27_StoreTerminalOnlyByPolling ==
    /\ [][\A j \in DOMAIN experiments :
            (experiments[j].status \notin Terminal
             /\ experiments'[j].status \in Terminal)
                => \E k \in JobIds :
                      GetJobStatusCall(k) \/ ApiGetJobStatus(k)]_vars
    /\ [](\A j \in DOMAIN jobs :
            (pc[j] = "done" /\ jobs[j].status = "running")
                => experiments[j].status = "running")

\* C27, amended: the task itself writes the terminal state to the store.
\* When a task has returned normally the Experiment status is completed or
\* failed and its Result exists, polled or not; no status or result request
\* writes the store; the Experiment status is never running. What a job
\* that is not polled keeps stale is only the queue's record of it.
C27_TaskWritesTheStore ==
    /\ [](\A j \in DOMAIN futures :
            futures[j].state = "finished"
                => /\ experiments[j].status \in Terminal
                   /\ j \in DOMAIN results)
    /\ [](\A j \in DOMAIN experiments : experiments[j].status # "running")
    /\ [][\A k \in JobIds :
            (GetJobStatusCall(k) \/ ApiGetJobStatus(k) \/ ApiGetJobResult(k))
                => UNCHANGED db_vars]_vars

C27_Witness ==
    /\ 1 \in DOMAIN futures /\ futures[1].state = "finished"
    /\ loop.pc = "idle"
    /\ jobs[1].status = "running"
    /\ experiments[1].status = "failed"
    /\ seen[1] = "none"

\* C28: the Experiment row of a job is committed before enqueue_job is
\* called, and rows are never deleted: every identifier with a record in the
\* queue, a Future or a task has its Experiment row, so the task finds the
\* row when it records the outcome and GET /status does not answer 404 for
\* an identifier whose record exists in the queue.
C28_ExperimentRowFirst ==
    /\ [](/\ loop.pc \in {"enqueue", "submit", "finish"}
              => loop.job_id \in DOMAIN experiments
          /\ DOMAIN jobs \subseteq DOMAIN experiments
          /\ DOMAIN futures \subseteq DOMAIN experiments
          /\ \A j \in JobIds : pc[j] # "none" => j \in DOMAIN experiments
          /\ \A j \in DOMAIN jobs :
                StatusResponse(experiments, jobs, futures, j).code # 404)
    /\ [][DOMAIN experiments \subseteq DOMAIN experiments']_vars

C28_Witness ==
    /\ 1 \in DOMAIN results /\ results[1].status = "completed"
    /\ resp.op = "status" /\ resp.job_id = 1 /\ resp.code = 200
    /\ pc[2] = "h_commit"

\* C29: the unguarded population of _model_cache is benign. A task past
\* get_or_train_model finds 'default' in the cache; the cache holds nothing
\* but one model with its metrics and, once filled, does not change; every
\* call returns the trained model and no task fails at the cache test, the
\* store or the read; each training is the step of a task that found the
\* cache empty, so there are at most as many trainings as such tasks.
C29_CachePopulationBenign ==
    /\ [](/\ \A j \in JobIds :
                pc[j] \in {"model_return", "model_loaded", "simulate",
                           "optimize", "commit"}
                    => ~CacheMiss(model_cache)
          /\ ~CacheMiss(model_cache)
                => (DOMAIN model_cache = {"default"}
                    /\ model_cache["default"] = TrainedModel))
    /\ [][/\ ~CacheMiss(model_cache) => model_cache' = model_cache
          /\ trainings' # trainings
                => (trainings' = trainings + 1
                    /\ \E j \in JobIds :
                          pc[j] = "model_train" /\ pc'[j] = "model_store")
          /\ \A j \in JobIds :
                /\ (pc[j] # "model_train" /\ pc'[j] = "model_train")
                      => (pc[j] = "model_check" /\ CacheMiss(model_cache))
                /\ (pc[j] = "model_return" /\ pc'[j] # "model_return")
                      => (pc'[j] = "model_loaded"
                          /\ local'[j].model = TrainedModel.model)
                /\ (fault[j] = "" /\ fault'[j] # "")
                      => pc[j] \notin {"model_check", "model_store",
                                       "model_return"}]_vars

C29_Witness ==
    /\ trainings = 2
    /\ 1 \in DOMAIN results /\ results[1].status = "completed"
    /\ 2 \in DOMAIN results /\ results[2].status = "completed"
    /\ model_cache["default"] = TrainedModel

\* get_job_status(j) would answer queued
AnswersQueued(j) == GetJobStatusReply(jobs, futures, j).status = "queued"

\* C30: get_job_status answers queued for a job only while enqueue_job for
\* that job is between registering the record and its final write, and only
\* while the task has not made its first update_job_status; a job that is
\* no longer answered queued is never answered queued again, so no poll
\* after enqueue_job has returned sees queued.
C30_QueuedOnlyInsideEnqueue ==
    /\ [](\A j \in JobIds :
            AnswersQueued(j)
                => /\ loop.job_id = j /\ loop.pc \in {"submit", "finish"}
                   /\ pc[j] \in {"none", "pending", "start"})
    /\ [][\A j \in DOMAIN jobs :
            ~AnswersQueued(j)
                => GetJobStatusReply(jobs', futures', j).status # "queued"]_vars
    /\ [][\A j \in JobIds :
            (loop.pc = "finish" /\ loop.job_id = j /\ loop'.pc = "idle")
                => GetJobStatusReply(jobs', futures', j).status # "queued"]_vars

C30_Witness ==
    /\ 1 \in DOMAIN jobs /\ jobs[1].status = "queued"
    /\ loop.pc = "finish" /\ loop.job_id = 1
    /\ pc[1] = "start"

====
